---- MODULE Spec2Model ----
(***************************************************************************)
(* Collaborative e-mail editing: the client-side CollaborationManager      *)
(* (static/js/collaboration.js) on top of the WebSocketManager channel.    *)
(*                                                                         *)
(* Text is a sequence of one-character strings.  JavaScript offsets are    *)
(* 0-based; TLA+ sequences are 1-based, the helpers below convert.         *)
(* Date.now() timestamps are not part of the state: no handler modelled    *)
(* here branches on a timestamp of a content record.                       *)
(* Toasts, the typing indicator and console logging are not modelled.      *)
(* window.currentUser is taken to be defined (the channel is only created  *)
(* on an authenticated page), so both classes see the same local user id.  *)
(***************************************************************************)
EXTENDS Integers, Sequences, FiniteSets, TLC

VARIABLES
    ws,     \* the WebSocketManager (window.socket)
    mgrs,   \* every CollaborationManager constructed so far, oldest first;
            \* the global collaborationManager is the last one
    dom,    \* the page: the two editable fields, their carets, visibility
    out,    \* the ws.emit(event, data) calls of the last step, in order
    wire,   \* the socket.emit(event, data) calls of the last step, in order
    last,   \* the operation of the last step, its arguments and its result
    calc    \* inputs and result of calculateNewCursorPosition (SpecCursor)

vars == <<ws, mgrs, dom, out, wire, last, calc>>

----------------------------------------------------------------------------
(* Bounds of the model *)

\* longest text given to calculateNewCursorPosition in SpecCursor
MaxCalcLen == 3
\* Spec stops taking content events at this history length
MaxHist == 3
\* Spec2 stops taking input events at this history length
MaxTyped == 2
\* 'connect' events of one socket in one behaviour
MaxConnects == 2
\* SpecHist starts this many records below the history limit ...
MaxBelow == 1
\* ... and takes content events up to this many records above it
MaxOver == 1

(* Program constants *)

\* if (this.contentHistory.length > 100)
HistoryLimit == 100
\* this.contentHistory.slice(-50)
HistoryKeep == 50
\* the value of 0/0 in calculateNewCursorPosition; never a valid offset
NaN == -1

Chars == {"a", "b"}
CurrentUser == "u1"
OtherUser == "u2"
UserIds == {CurrentUser, OtherUser}
FieldKinds == {"subject", "body"}
EmailIds == {"e1", "e2"}

Strs(n) == UNION {[1..k -> Chars] : k \in 0..n}

----------------------------------------------------------------------------
(* JavaScript string helpers *)

\* String.prototype.substring(a, b) for 0 <= a <= b <= length
substring(s, a, b) == SubSeq(s, a + 1, b)

\* String.prototype.indexOf: offset of the leftmost occurrence, or -1
indexOf(s, t) ==
    LET hits == {i \in 0..(Len(s) - Len(t)) : substring(s, i, i + Len(t)) = t}
    IN  IF hits = {} THEN -1
        ELSE CHOOSE i \in hits : \A j \in hits : i <= j

\* Math.round(n * (c / l)) for integers n, c >= 0 and l > 0: halves round up
roundProportion(n, c, l) == (2 * n * c + l) \div (2 * l)

\* Array.prototype.slice(-n)
sliceLast(h, n) == IF Len(h) <= n THEN h ELSE SubSeq(h, Len(h) - n + 1, Len(h))

----------------------------------------------------------------------------
(* CollaborationManager.calculateNewCursorPosition *)

calculateNewCursorPosition_noPrefixRule(oldContent, newContent, oldCursor) ==
    LET afterCursor == substring(oldContent, oldCursor, Len(oldContent))
        afterIndex  == indexOf(newContent, afterCursor)
    IN  IF afterIndex # -1 THEN afterIndex
        ELSE IF Len(oldContent) = 0 THEN NaN
        ELSE roundProportion(Len(newContent), oldCursor, Len(oldContent))

calculateNewCursorPosition_unrounded(oldContent, newContent, oldCursor) ==
    LET beforeCursor == substring(oldContent, 0, oldCursor)
        afterCursor  == substring(oldContent, oldCursor, Len(oldContent))
        beforeIndex  == indexOf(newContent, beforeCursor)
        afterIndex   == indexOf(newContent, afterCursor)
    IN  IF beforeIndex # -1 THEN beforeIndex + Len(beforeCursor)
        ELSE IF afterIndex # -1 THEN afterIndex
        ELSE IF Len(oldContent) = 0 THEN NaN
        ELSE Len(newContent) * oldCursor

calculateNewCursorPosition_noSuffixRule(oldContent, newContent, oldCursor) ==
    LET beforeCursor == substring(oldContent, 0, oldCursor)
        beforeIndex  == indexOf(newContent, beforeCursor)
    IN  IF beforeIndex # -1 THEN beforeIndex + Len(beforeCursor)
        ELSE IF Len(oldContent) = 0 THEN NaN
        ELSE roundProportion(Len(newContent), oldCursor, Len(oldContent))

calculateNewCursorPosition(oldContent, newContent, oldCursor) ==
    LET beforeCursor == substring(oldContent, 0, oldCursor)
        afterCursor  == substring(oldContent, oldCursor, Len(oldContent))
        beforeIndex  == indexOf(newContent, beforeCursor)
        afterIndex   == indexOf(newContent, afterCursor)
    IN  IF beforeIndex # -1 THEN beforeIndex + Len(beforeCursor)
        ELSE IF afterIndex # -1 THEN afterIndex
        ELSE IF Len(oldContent) = 0 THEN NaN
        ELSE roundProportion(Len(newContent), oldCursor, Len(oldContent))

----------------------------------------------------------------------------
(* Values *)

\* an outbound event; fields an event does not carry hold "", <<>> or -1.
\* src is the manager whose code made the call (0: none), not part of the payload
Event(name, src, emailId, content, kind, pos) ==
    [event |-> name, src |-> src, email_id |-> emailId, content |-> content,
     content_type |-> kind, cursor_position |-> pos]

\* one entry of contentHistory; applied is TRUE for a remotely applied update
ContentRecord(kind, content, userId, applied) ==
    [type |-> kind, content |-> content, userId |-> userId, applied |-> applied]

NoTimer == [armed |-> FALSE, content |-> <<>>, type |-> "", position |-> 0]

\* the content of a payload that has no content property
Undefined == <<"undefined">>

\* String(v): what a field holds after element.value = v
toText(v) ==
    IF v = Undefined THEN <<"u", "n", "d", "e", "f", "i", "n", "e", "d">> ELSE v

\* the state the handlers transform: the variables of the model but the ghosts.
\* threw: a handler of the event being dispatched has thrown
World == [ws |-> ws, mgrs |-> mgrs, dom |-> dom, out |-> <<>>, wire |-> <<>>,
          threw |-> FALSE]

\* CollaborationManager.getCurrentUserId / WebSocketManager.getCurrentUserId
getCurrentUserId == CurrentUser

----------------------------------------------------------------------------
(* WebSocketManager *)

\* this.maxReconnectAttempts, also the socket's reconnectionAttempts option
maxReconnectAttempts == 5

\* constructor, then initializeWebSocket's connect(): a socket that is still
\* connecting, whose promise is pending
NewSocket(w) ==
    [w EXCEPT !.socket = TRUE, !.connected = FALSE,
              !.connectionPromise = "pending", !.listeners = <<>>,
              !.lib = "opening", !.libFailures = 0]

\* lib and libFailures are the state of the socket library: "opening" while it
\* tries to connect, "open" while connected, "closed" once it has stopped
\* trying, and the reconnection attempts that failed since it last was open.
\* notice is the last message given to showConnectionStatus, noticeAttempt the
\* attempt number that message shows (0: none), reconnectTimers the number of
\* pending timers of attemptReconnect, pingIntervals the number of running
\* intervals of setupPingPong
WebSocketManager ==
    NewSocket([socket |-> FALSE, connected |-> FALSE, isAuthenticated |-> FALSE,
               connectionPromise |-> "none", thenQueue |-> <<>>,
               reconnectAttempts |-> 0, listeners |-> <<>>,
               lib |-> "closed", libFailures |-> 0, notice |-> "",
               noticeAttempt |-> 0, reconnectTimers |-> 0, pingIntervals |-> 0])

isConnected(w) == w.socket /\ w.connected /\ w.isAuthenticated

\* this.socket.emit(event, data); connected records whether the socket was
\* connected at the call (if not, the socket library buffers the packet)
socketEmit(s, ev) ==
    [s EXCEPT !.wire = Append(@, [ev |-> ev, connected |-> s.ws.connected])]

\* connect(): the state after the call; the caller waits on connectionPromise
connect(s) ==
    IF s.ws.socket /\ s.ws.connected THEN s
    ELSE IF s.ws.connectionPromise # "none" THEN s
    ELSE [s EXCEPT !.ws = NewSocket(@)]

\* disconnect(): the socket is closed and dropped with its listeners, the
\* promise is forgotten; callbacks waiting on it never run
disconnect(s) ==
    [s EXCEPT !.ws.socket = FALSE, !.ws.connected = FALSE,
              !.ws.connectionPromise = "none", !.ws.isAuthenticated = FALSE,
              !.ws.lib = "closed", !.ws.listeners = <<>>, !.ws.thenQueue = <<>>]

\* emit(event, data).  A callback attached to a settled promise runs before the
\* next event is handled, so it is part of the same step.
emit(s, ev) ==
    LET s1 == [s EXCEPT !.out = Append(@, ev)]
    IN  IF ~(s.ws.socket /\ s.ws.connected)
        THEN LET s2 == connect(s1)
             IN  CASE s2.ws.connectionPromise = "resolved" -> socketEmit(s2, ev)
                   [] s2.ws.connectionPromise = "pending" ->
                        [s2 EXCEPT !.ws.thenQueue = Append(@, ev)]
                   [] OTHER -> s2
        ELSE socketEmit(s1, ev)

\* the callback of an interval of setupPingPong
pingInterval(s) ==
    IF s.ws.socket /\ s.ws.connected
    THEN socketEmit(s, Event("ping", 0, "", <<>>, "", -1))
    ELSE s

\* on(event, handler), for the five handlers of one manager: attached to the
\* socket only if there is one
on(s, m) ==
    IF s.ws.socket THEN [s EXCEPT !.ws.listeners = Append(@, m)] ELSE s

RECURSIVE flushThen(_, _)
flushThen(s, q) ==
    IF q = <<>> THEN s ELSE flushThen(socketEmit(s, Head(q)), Tail(q))

onConnect_keepAttempts(s) ==
    LET s1 == [s EXCEPT !.ws.connected = TRUE,
                        !.ws.lib = "open",
                        !.ws.libFailures = 0,
                        !.ws.isAuthenticated = TRUE,
                        !.ws.listeners = Append(@, 0),
                        !.ws.pingIntervals = @ + 1]
    IN  IF s.ws.connectionPromise = "pending"
        THEN flushThen([s1 EXCEPT !.ws.connectionPromise = "resolved",
                                  !.ws.thenQueue = <<>>], s.ws.thenQueue)
        ELSE s1

\* the socket's 'connect' handler: setupEventHandlers registers the built-in
\* handlers (tag 0) once more and setupPingPong starts one more interval, resolve() settles a pending promise and runs the
\* callbacks waiting on it
onConnect(s) ==
    LET s1 == [s EXCEPT !.ws.connected = TRUE,
                        !.ws.lib = "open",
                        !.ws.libFailures = 0,
                        !.ws.reconnectAttempts = 0,
                        !.ws.isAuthenticated = TRUE,
                        !.ws.listeners = Append(@, 0),
                        !.ws.pingIntervals = @ + 1]
    IN  IF s.ws.connectionPromise = "pending"
        THEN flushThen([s1 EXCEPT !.ws.connectionPromise = "resolved",
                                  !.ws.thenQueue = <<>>], s.ws.thenQueue)
        ELSE s1

\* the socket's 'disconnect' handler for a reason other than a server
\* disconnect (those go through attemptReconnect); the socket library starts
\* to reconnect
onDisconnect(s) ==
    [s EXCEPT !.ws.connected = FALSE, !.ws.isAuthenticated = FALSE,
              !.ws.lib = "opening"]

\* attemptReconnect: the timer it starts calls connect() after 3000 ms
attemptReconnect(s) ==
    IF s.ws.reconnectAttempts >= maxReconnectAttempts
    THEN [s EXCEPT !.ws.notice = "Unable to reconnect", !.ws.noticeAttempt = 0]
    ELSE [s EXCEPT !.ws.reconnectAttempts = @ + 1,
                   !.ws.notice = "Reconnecting",
                   !.ws.noticeAttempt = s.ws.reconnectAttempts + 1,
                   !.ws.reconnectTimers = @ + 1]

\* the 'disconnect' handler for reason 'io server disconnect', after which the
\* socket library does not reconnect by itself
onServerDisconnect(s) ==
    attemptReconnect([s EXCEPT !.ws.connected = FALSE, !.ws.isAuthenticated = FALSE,
                               !.ws.lib = "closed"])

\* the callback of attemptReconnect's timer: connect().catch(...)
reconnectTimeout(s) ==
    connect([s EXCEPT !.ws.reconnectTimers = @ - 1])

\* the 'connect_error' handler: reject(error) settles a pending promise, and the
\* catch of every emit() waiting on it logs the event it drops
onConnectError(s) ==
    IF s.ws.connectionPromise = "pending"
    THEN [s EXCEPT !.ws.isAuthenticated = FALSE,
                   !.ws.connectionPromise = "rejected",
                   !.ws.thenQueue = <<>>]
    ELSE [s EXCEPT !.ws.isAuthenticated = FALSE]

\* the 'reconnect' handler
onReconnect(s) ==
    [s EXCEPT !.ws.reconnectAttempts = 0, !.ws.isAuthenticated = TRUE,
              !.ws.notice = "Reconnected", !.ws.noticeAttempt = 0]

\* handleReconnectError, called by the 'reconnect_error' handler
handleReconnectError(s) ==
    LET attempts == s.ws.reconnectAttempts + 1
    IN  [s EXCEPT !.ws.libFailures = @ + 1,
                  !.ws.reconnectAttempts = attempts,
                  !.ws.notice = IF attempts < maxReconnectAttempts
                                THEN "Connection lost. Retrying" ELSE @,
                  !.ws.noticeAttempt = IF attempts < maxReconnectAttempts
                                       THEN attempts ELSE @]

onReconnectFailed_silent(s) == [s EXCEPT !.ws.lib = "closed"]

\* the 'reconnect_failed' handler: the socket library has given up
onReconnectFailed(s) ==
    [s EXCEPT !.ws.lib = "closed", !.ws.notice = "Connection lost. Please refresh",
              !.ws.noticeAttempt = 0]

----------------------------------------------------------------------------
(* CollaborationManager *)

\* the field a content type names: anything but 'subject' is emailBody
targetElement(kind) == IF kind = "subject" THEN "subject" ELSE "body"

\* element.value = v: a changed value leaves the caret at its end
setValue(d, field, v) ==
    IF d.value[field] = v THEN d
    ELSE [d EXCEPT !.value[field] = v, !.caret[field] = Len(v)]

\* element.setSelectionRange(p, p): NaN counts as 0, the range is clamped
setSelectionRange(d, field, p) ==
    [d EXCEPT !.caret[field] =
        IF p < 0 THEN 0 ELSE IF p > Len(d.value[field]) THEN Len(d.value[field]) ELSE p]

\* emailBody.style.border of the loaded page
NoBorder == ""

\* the colour assigned to a user, named by the user
getUserColor(userId) == userId

\* WebSocketManager.showContentUpdateIndicator: borderColor and boxShadow are
\* set, and a timer is started that clears them
WS_showContentUpdateIndicator(s) ==
    [s EXCEPT !.dom.glow = TRUE,
              !.dom.pulses = Append(@, [style |-> "glow", restore |-> NoBorder])]

\* CollaborationManager.showContentUpdateIndicator: the border of emailBody is
\* read, set to the user's colour, and a timer is started that writes back what
\* was read
showContentUpdateIndicator(s, userId) ==
    LET originalBorder == s.dom.border
    IN  [s EXCEPT !.dom.border = getUserColor(userId),
                  !.dom.pulses = Append(@, [style |-> "border",
                                            restore |-> originalBorder])]

\* a 1000 ms timer of showContentUpdateIndicator elapses
pulseTimeout(d) ==
    LET t == Head(d.pulses)
    IN  IF t.style = "glow"
        THEN [d EXCEPT !.glow = FALSE, !.pulses = Tail(@)]
        ELSE [d EXCEPT !.border = t.restore, !.pulses = Tail(@)]

\* every pending indicator timer elapses, oldest first
RECURSIVE runPulses(_)
runPulses(d) == IF d.pulses = <<>> THEN d ELSE runPulses(pulseTimeout(d))

\* WebSocketManager.handleContentUpdated: writes emailBody whatever the content
\* type, keeps the caret offset (the field clamps it to the new length)
WS_handleContentUpdated(s, data) ==
    IF data.user_id = getCurrentUserId THEN s
    ELSE IF data.content # <<>> /\ data.content # Undefined
    THEN LET currentCursor == s.dom.caret["body"]
         IN  WS_showContentUpdateIndicator(
                [s EXCEPT !.dom = setSelectionRange(setValue(@, "body", data.content),
                                                    "body", currentCursor)])
    ELSE s

\* constructor, up to its call of initializeCollaboration.  collaborators holds
\* the keys of the map, markerTimers the pending expiry timers of
\* showCollaboratorCursor.  paused and confirmed are history fields the code
\* does not have: paused is TRUE from a pauseCollaboration that deactivated the
\* session to its next join or leave, confirmed is TRUE once collaboration_joined
\* has arrived after the last join request, left is TRUE once a
\* leaveCollaboration call has sent leave_collaboration
NewManager(emailId) ==
    [emailId |-> emailId, isActive |-> FALSE, collaborators |-> {},
     contentHistory |-> <<>>, contentTimer |-> NoTimer, cursorTimer |-> NoTimer,
     listening |-> FALSE, markerTimers |-> {}, paused |-> FALSE,
     confirmed |-> FALSE, left |-> FALSE]

\* setupEventListeners: the page's listeners and the five channel handlers
setupEventListeners(s, m) ==
    on([s EXCEPT !.mgrs[m].listening = TRUE], m)

joinCollaboration_noConnectionCheck(s, m) ==
    [emit(s, Event("join_collaboration", m, s.mgrs[m].emailId, <<>>, "", -1))
        EXCEPT !.mgrs[m].isActive = TRUE, !.mgrs[m].paused = FALSE,
               !.mgrs[m].confirmed = FALSE]

joinCollaboration(s, m) ==
    IF ~isConnected(s.ws) THEN s
    ELSE [emit(s, Event("join_collaboration", m, s.mgrs[m].emailId, <<>>, "", -1))
            EXCEPT !.mgrs[m].isActive = TRUE, !.mgrs[m].paused = FALSE,
                   !.mgrs[m].confirmed = FALSE]

\* the timers T once the collaborator objects of the users in us have left the
\* map: the closures keep the old objects, which no later update reaches
detach(T, us) ==
    {IF t.user \in us THEN [t EXCEPT !.attached = FALSE] ELSE t : t \in T}

\* clearCollaborationUI: every element whose id starts with
\* collaborator-cursor- is removed, the indicator gets d-none, the map is cleared
clearCollaborationUI(s, m) ==
    [s EXCEPT !.dom.markers = {},
              !.dom.indicatorHidden = TRUE,
              !.mgrs[m].collaborators = {},
              !.mgrs[m].markerTimers = detach(@, s.mgrs[m].collaborators)]

leaveCollaboration(s, m) ==
    IF ~s.mgrs[m].isActive THEN s
    ELSE clearCollaborationUI(
            [emit(s, Event("leave_collaboration", m, s.mgrs[m].emailId, <<>>, "", -1))
                EXCEPT !.mgrs[m].isActive = FALSE, !.mgrs[m].paused = FALSE,
                       !.mgrs[m].left = TRUE], m)

pauseCollaboration(s, m) ==
    IF s.mgrs[m].isActive
    THEN [s EXCEPT !.mgrs[m].isActive = FALSE, !.mgrs[m].paused = TRUE]
    ELSE s

resumeCollaboration_silent(s, m) ==
    IF ~s.mgrs[m].isActive /\ s.mgrs[m].emailId # ""
    THEN [s EXCEPT !.mgrs[m].isActive = TRUE, !.mgrs[m].paused = FALSE]
    ELSE s

resumeCollaboration(s, m) ==
    IF ~s.mgrs[m].isActive /\ s.mgrs[m].emailId # ""
    THEN joinCollaboration(s, m) ELSE s

\* the method initializeCollaboration, called by the constructor
CM_initializeCollaboration(s, m) ==
    IF s.mgrs[m].emailId = "" THEN s
    ELSE joinCollaboration(setupEventListeners(s, m), m)

\* new CollaborationManager(emailId, window.socket)
Construct(s, emailId) ==
    CM_initializeCollaboration(
        [s EXCEPT !.mgrs = Append(@, NewManager(emailId))], Len(s.mgrs) + 1)

\* the global function initializeCollaboration(emailId)
initializeCollaboration(s, emailId) ==
    IF emailId = "" THEN s
    ELSE Construct(IF Len(s.mgrs) > 0 THEN leaveCollaboration(s, Len(s.mgrs)) ELSE s,
                   emailId)

sendContentUpdate_noActiveCheck(s, m, content, kind) ==
    emit(s, Event("email_content_change", m, s.mgrs[m].emailId, content, kind, -1))

sendContentUpdate(s, m, content, kind) ==
    IF ~s.mgrs[m].isActive THEN s
    ELSE emit(s, Event("email_content_change", m, s.mgrs[m].emailId, content, kind, -1))

sendCursorUpdate(s, m, position) ==
    IF ~s.mgrs[m].isActive THEN s
    ELSE emit(s, Event("cursor_update", m, s.mgrs[m].emailId, <<>>, "", position))

handleContentChange_cutBeforePush(s, m, content, kind) ==
    IF ~s.mgrs[m].isActive THEN s
    ELSE LET h == s.mgrs[m].contentHistory
             cut == IF Len(h) >= HistoryLimit THEN sliceLast(h, HistoryKeep) ELSE h
         IN  [s EXCEPT !.mgrs[m].contentHistory =
                            Append(cut, ContentRecord(kind, content, getCurrentUserId, FALSE)),
                       !.mgrs[m].contentTimer =
                            [armed |-> TRUE, content |-> content, type |-> kind,
                             position |-> 0]]

handleContentChange_keepPending(s, m, content, kind) ==
    IF ~s.mgrs[m].isActive THEN s
    ELSE LET pushed == Append(s.mgrs[m].contentHistory,
                              ContentRecord(kind, content, getCurrentUserId, FALSE))
         IN  [s EXCEPT !.mgrs[m].contentHistory =
                            IF Len(pushed) > HistoryLimit
                            THEN sliceLast(pushed, HistoryKeep) ELSE pushed,
                       !.mgrs[m].contentTimer =
                            IF @.armed THEN @
                            ELSE [armed |-> TRUE, content |-> content, type |-> kind,
                                  position |-> 0]]

\* handleContentChange: the record is pushed, then the history is cut, then the
\* debounced sender is (re)armed with this event's arguments
handleContentChange(s, m, content, kind) ==
    IF ~s.mgrs[m].isActive THEN s
    ELSE LET pushed == Append(s.mgrs[m].contentHistory,
                              ContentRecord(kind, content, getCurrentUserId, FALSE))
         IN  [s EXCEPT !.mgrs[m].contentHistory =
                            IF Len(pushed) > HistoryLimit
                            THEN sliceLast(pushed, HistoryKeep) ELSE pushed,
                       !.mgrs[m].contentTimer =
                            [armed |-> TRUE, content |-> content, type |-> kind,
                             position |-> 0]]

handleCursorChange(s, m, position) ==
    IF ~s.mgrs[m].isActive THEN s
    ELSE [s EXCEPT !.mgrs[m].cursorTimer =
                        [armed |-> TRUE, content |-> <<>>, type |-> "",
                         position |-> position]]

applyContentUpdate_keepValue(s, m, data) ==
    [s EXCEPT !.mgrs[m].contentHistory =
                Append(@, ContentRecord(data.content_type, data.content,
                                        data.user_id, TRUE))]

applyContentUpdate_coalesce(s, m, data) ==
    LET field          == targetElement(data.content_type)
        currentCursor  == s.dom.caret[field]
        currentContent == s.dom.value[field]
        written        == setValue(s.dom, field, data.content)
        newCursorPosition ==
            calculateNewCursorPosition(currentContent, data.content, currentCursor)
        h      == s.mgrs[m].contentHistory
        record == ContentRecord(data.content_type, data.content, data.user_id, TRUE)
    IN  [s EXCEPT !.dom = setSelectionRange(written, field, newCursorPosition),
                  !.mgrs[m].contentHistory =
                        IF h # <<>> /\ h[Len(h)].applied /\ h[Len(h)].type = record.type
                        THEN [h EXCEPT ![Len(h)] = record]
                        ELSE Append(h, record)]

\* applyContentUpdate: the value is replaced, the caret recomputed from the
\* value and caret read before, and a record is pushed (the history is not cut).
\* Without a content the value becomes the text of undefined, and
\* calculateNewCursorPosition throws at newContent.indexOf
applyContentUpdate(s, m, data) ==
    LET field          == targetElement(data.content_type)
        currentCursor  == s.dom.caret[field]
        currentContent == s.dom.value[field]
        written        == setValue(s.dom, field, toText(data.content))
        newCursorPosition ==
            calculateNewCursorPosition(currentContent, data.content, currentCursor)
    IN  IF data.content = Undefined
        THEN [s EXCEPT !.dom = written, !.threw = TRUE]
        ELSE [s EXCEPT !.dom = setSelectionRange(written, field, newCursorPosition),
                       !.mgrs[m].contentHistory =
                            Append(@, ContentRecord(data.content_type, data.content,
                                                    data.user_id, TRUE))]

handleContentUpdated_noEchoCheck(s, m, data) == applyContentUpdate(s, m, data)

handleContentUpdated_activeOnly(s, m, data) ==
    IF data.user_id = getCurrentUserId \/ ~s.mgrs[m].isActive THEN s
    ELSE applyContentUpdate(s, m, data)

\* CollaborationManager.handleContentUpdated
handleContentUpdated(s, m, data) ==
    IF data.user_id = getCurrentUserId THEN s
    ELSE LET applied == applyContentUpdate(s, m, data)
         IN  IF applied.threw THEN applied
             ELSE showContentUpdateIndicator(applied, data.user_id)

canUndo(s, m) == Len(s.mgrs[m].contentHistory) > 1

undo_noGuard(s, m) ==
    LET h == s.mgrs[m].contentHistory
        popped == IF h = <<>> THEN h ELSE SubSeq(h, 1, Len(h) - 1)
    IN  IF popped = <<>> THEN [s EXCEPT !.mgrs[m].contentHistory = popped]
        ELSE [s EXCEPT !.mgrs[m].contentHistory = popped,
                       !.dom = setValue(@, targetElement(popped[Len(popped)].type),
                                        popped[Len(popped)].content)]

undo_broadcast(s, m) ==
    IF ~canUndo(s, m) THEN s
    ELSE LET h == s.mgrs[m].contentHistory
             popped == SubSeq(h, 1, Len(h) - 1)
             previousState == popped[Len(popped)]
         IN  sendContentUpdate(
                [s EXCEPT !.mgrs[m].contentHistory = popped,
                          !.dom = setValue(@, targetElement(previousState.type),
                                           previousState.content)],
                m, previousState.content, previousState.type)

\* undo(): the state after the call
undo(s, m) ==
    IF ~canUndo(s, m) THEN s
    ELSE LET h == s.mgrs[m].contentHistory
             popped == SubSeq(h, 1, Len(h) - 1)
             previousState == popped[Len(popped)]
         IN  [s EXCEPT !.mgrs[m].contentHistory = popped,
                       !.dom = setValue(@, targetElement(previousState.type),
                                        previousState.content)]

\* undo(): the value returned.  After the pop of a history of two or more
\* records a previous state exists, and so does its field
undoReturns(s, m) == canUndo(s, m)

forceSync(s, m) ==
    IF ~s.mgrs[m].isActive THEN s
    ELSE sendContentUpdate(
            sendContentUpdate(s, m, s.dom.value["body"], "body"),
            m, s.dom.value["subject"], "subject")

----------------------------------------------------------------------------
(* Presence and remote cursors.  A presence payload is a record
   [user_id, listed, active_users]: listed tells whether it carries an
   active_users array, active_users holds the ids of that array. *)

Presence(user, listed, users) ==
    [user_id |-> user, listed |-> listed, active_users |-> users]

\* addCollaborator: collaborators.set puts a new object under the id
addCollaborator(s, m, userId) ==
    [s EXCEPT !.mgrs[m].collaborators = @ \cup {userId},
              !.mgrs[m].markerTimers = detach(@, {userId})]

removeCollaboratorCursor(s, userId) ==
    [s EXCEPT !.dom.markers = @ \ {userId}]

removeCollaborator(s, m, userId) ==
    removeCollaboratorCursor(
        [s EXCEPT !.mgrs[m].collaborators = @ \ {userId},
                  !.mgrs[m].markerTimers = detach(@, {userId})], userId)

\* CollaborationManager.updateCollaborationIndicator
updateCollaborationIndicator(s, m) ==
    LET collaboratorCount == Cardinality(s.mgrs[m].collaborators)
    IN  IF collaboratorCount > 0
        THEN [s EXCEPT !.dom.indicatorHidden = FALSE, !.dom.count = collaboratorCount]
        ELSE [s EXCEPT !.dom.indicatorHidden = TRUE]

updateCollaborators_keepMissing(s, m, activeUsers) ==
    updateCollaborationIndicator(
        [s EXCEPT !.mgrs[m].collaborators = @ \cup (activeUsers \ {getCurrentUserId}),
                  !.mgrs[m].markerTimers = detach(@, activeUsers)], m)

\* updateCollaborators: the map is cleared, every listed user but the local one
\* is added, the indicator is recomputed
updateCollaborators(s, m, activeUsers) ==
    updateCollaborationIndicator(
        [s EXCEPT !.mgrs[m].collaborators = activeUsers \ {getCurrentUserId},
                  !.mgrs[m].markerTimers =
                        detach(@, s.mgrs[m].collaborators \cup activeUsers)], m)

\* handleCollaborationJoined
handleCollaborationJoined(s, m, data) ==
    LET s1 == [s EXCEPT !.mgrs[m].confirmed = TRUE]
    IN  IF data.listed THEN updateCollaborators(s1, m, data.active_users) ELSE s1

\* CollaborationManager.handleUserJoined
handleUserJoined(s, m, data) ==
    LET s1 == IF data.user_id # getCurrentUserId
              THEN addCollaborator(s, m, data.user_id) ELSE s
    IN  IF data.listed THEN updateCollaborators(s1, m, data.active_users) ELSE s1

\* CollaborationManager.handleUserLeft
handleUserLeft(s, m, data) ==
    LET s1 == removeCollaborator(s, m, data.user_id)
    IN  IF data.listed THEN updateCollaborators(s1, m, data.active_users) ELSE s1

\* showCollaboratorCursor: the old marker of the user is replaced by a new
\* one and a 5000 ms timer is started.  fresh: lastSeen of the collaborator
\* object the timer holds is still the time the timer was started at
showCollaboratorCursor(s, m, userId) ==
    [s EXCEPT !.dom.markers = @ \cup {userId},
              !.mgrs[m].markerTimers =
                    @ \cup {[user |-> userId, fresh |-> TRUE, attached |-> TRUE]}]

\* updateCollaboratorCursor: lastSeen = Date.now() on the object in the map,
\* which the earlier timers of that object see
updateCollaboratorCursor(s, m, userId) ==
    IF userId \notin s.mgrs[m].collaborators THEN s
    ELSE showCollaboratorCursor(
            [s EXCEPT !.mgrs[m].markerTimers =
                {IF t.user = userId /\ t.attached THEN [t EXCEPT !.fresh = FALSE] ELSE t
                    : t \in @}], m, userId)

\* CollaborationManager.handleCursorMoved
handleCursorMoved(s, m, data) ==
    IF data.user_id = getCurrentUserId THEN s
    ELSE updateCollaboratorCursor(s, m, data.user_id)

\* the callback of the expiry timer t.  Date.now() - collaborator.lastSeen is
\* at least 5000 when lastSeen is the time the timer was started at: exactly
\* 5000 or (over) more; it is less when the object was updated since
cursorTimeout(s, m, t, over) ==
    LET s1 == [s EXCEPT !.mgrs[m].markerTimers = @ \ {t}]
    IN  IF t.fresh /\ over THEN removeCollaboratorCursor(s1, t.user) ELSE s1

\* WebSocketManager.updateCollaborationIndicator(activeUsers)
WS_updateCollaborationIndicator(s, data) ==
    LET userCount == IF data.listed THEN Cardinality(data.active_users) ELSE 0
    IN  IF userCount > 1
        THEN [s EXCEPT !.dom.indicatorHidden = FALSE, !.dom.count = userCount - 1]
        ELSE [s EXCEPT !.dom.indicatorHidden = TRUE]

\* WebSocketManager.removeCursor
removeCursor(s, userId) == [s EXCEPT !.dom.wsMarkers = @ \ {userId}]

\* WebSocketManager.updateCursor: no timer removes this marker
updateCursor(s, userId) == [s EXCEPT !.dom.wsMarkers = @ \cup {userId}]

WS_handleUserJoined(s, data) == WS_updateCollaborationIndicator(s, data)

WS_handleUserLeft(s, data) ==
    removeCursor(WS_updateCollaborationIndicator(s, data), data.user_id)

WS_handleCursorMoved(s, data) ==
    IF data.user_id = getCurrentUserId THEN s ELSE updateCursor(s, data.user_id)

----------------------------------------------------------------------------
(* Event dispatch: listeners run in the order they were registered *)

\* the 'input' listeners of the managers i, i+1, ...
RECURSIVE dispatchInput(_, _, _, _)
dispatchInput(s, i, content, kind) ==
    IF i > Len(s.mgrs) THEN s
    ELSE dispatchInput(IF s.mgrs[i].listening
                       THEN handleContentChange(s, i, content, kind) ELSE s,
                       i + 1, content, kind)

\* the 'keyup' / 'click' listeners on emailBody
RECURSIVE dispatchCursor(_, _, _)
dispatchCursor(s, i, position) ==
    IF i > Len(s.mgrs) THEN s
    ELSE dispatchCursor(IF s.mgrs[i].listening
                        THEN handleCursorChange(s, i, position) ELSE s,
                        i + 1, position)

\* the 'visibilitychange' listeners
RECURSIVE dispatchVisibility(_, _)
dispatchVisibility(s, i) ==
    IF i > Len(s.mgrs) THEN s
    ELSE dispatchVisibility(
            IF ~s.mgrs[i].listening THEN s
            ELSE IF s.dom.hidden THEN pauseCollaboration(s, i)
            ELSE resumeCollaboration(s, i),
            i + 1)

\* the socket's 'content_updated' listeners: tag 0 is the channel's built-in
\* handler, any other tag the manager of that index.  A listener that throws
\* ends the dispatch: the listeners after it are not called
RECURSIVE dispatchContentUpdated(_, _, _)
dispatchContentUpdated(s, ls, data) ==
    IF ls = <<>> \/ s.threw THEN s
    ELSE dispatchContentUpdated(
            IF Head(ls) = 0 THEN WS_handleContentUpdated(s, data)
            ELSE handleContentUpdated(s, Head(ls), data),
            Tail(ls), data)

\* the socket's listeners of a presence or cursor event, in registration
\* order; the channel has no built-in handler of collaboration_joined
RECURSIVE dispatchPresence(_, _, _, _)
dispatchPresence(s, ls, event, data) ==
    IF ls = <<>> THEN s
    ELSE dispatchPresence(
            CASE event = "collaboration_joined" ->
                    IF Head(ls) = 0 THEN s
                    ELSE handleCollaborationJoined(s, Head(ls), data)
              [] event = "user_joined" ->
                    IF Head(ls) = 0 THEN WS_handleUserJoined(s, data)
                    ELSE handleUserJoined(s, Head(ls), data)
              [] event = "user_left" ->
                    IF Head(ls) = 0 THEN WS_handleUserLeft(s, data)
                    ELSE handleUserLeft(s, Head(ls), data)
              [] OTHER ->
                    IF Head(ls) = 0 THEN WS_handleCursorMoved(s, data)
                    ELSE handleCursorMoved(s, Head(ls), data),
            Tail(ls), event, data)

\* the 'beforeunload' listeners
RECURSIVE dispatchBeforeUnload(_, _)
dispatchBeforeUnload(s, i) ==
    IF i > Len(s.mgrs) THEN s
    ELSE dispatchBeforeUnload(IF s.mgrs[i].listening THEN leaveCollaboration(s, i) ELSE s,
                              i + 1)

----------------------------------------------------------------------------
(* The state machine *)

\* the texts typed and received
SessionTexts == {<<>>, <<"a">>}

\* the operation of a step: its name, the manager it is called on or creates
\* (0: none), its arguments, and the value it returns
Op(name, m, kind, content, user, ret) ==
    [op |-> name, mgr |-> m, email |-> "", kind |-> kind, content |-> content,
     user |-> user, ret |-> ret, listed |-> FALSE, users |-> {}]

\* a presence or cursor event about user, with its active_users if listed
OpPresence(name, user, listed, users) ==
    [Op(name, 0, "", <<>>, user, TRUE) EXCEPT !.listed = listed, !.users = users]

OpInitialize(m, emailId, ret) ==
    [Op("initializeCollaboration", m, "", <<>>, "", ret) EXCEPT !.email = emailId]

NoCalc == [oldContent |-> <<>>, newContent |-> <<>>, oldCursor |-> 0,
           result |-> 0, done |-> FALSE]

\* the page as loaded.  border is emailBody.style.border, glow is TRUE while
\* emailBody.style.borderColor and boxShadow are set, pulses holds the pending
\* 1000 ms timers of the two showContentUpdateIndicator methods in the order
\* they were set, which is the order they run in.  markers holds the user ids u with an element
\* collaborator-cursor-u, wsMarkers those with an element cursor-u; the
\* presence indicator starts with class d-none and a count of 0
Page == [value |-> [k \in FieldKinds |-> <<>>], caret |-> [k \in FieldKinds |-> 0],
         hidden |-> FALSE, markers |-> {}, wsMarkers |-> {},
         indicatorHidden |-> TRUE, count |-> 0,
         border |-> NoBorder, glow |-> FALSE, pulses |-> <<>>]

\* the step to World s, made by operation o
Becomes(s, o) ==
    /\ ws' = s.ws
    /\ mgrs' = s.mgrs
    /\ dom' = s.dom
    /\ out' = s.out
    /\ wire' = s.wire
    /\ last' = o
    /\ UNCHANGED calc

\* every history holds at least lo records and still takes one below hi
HistoryRoom(lo, hi) ==
    \A i \in 1..Len(mgrs) :
        /\ Len(mgrs[i].contentHistory) >= lo
        /\ Len(mgrs[i].contentHistory) < hi

\* how often setupEventHandlers has run on the socket
Connects == Cardinality({i \in 1..Len(ws.listeners) : ws.listeners[i] = 0})

Init ==
    /\ ws = WebSocketManager
    /\ mgrs = <<>>
    /\ dom = Page
    /\ out = <<>>
    /\ wire = <<>>
    /\ last = Op("init", 0, "", <<>>, "", TRUE)
    /\ calc = NoCalc

\* the server accepts the connection: the socket's 'connect' event
SocketConnect ==
    /\ ws.socket /\ ~ws.connected
    /\ ws.lib = "opening"
    /\ Connects < MaxConnects
    /\ ws.pingIntervals < MaxConnects
    /\ Becomes(onConnect(World), Op("connect", 0, "", <<>>, "", TRUE))

\* the connection is lost: the socket's 'disconnect' event
SocketDisconnect ==
    /\ ws.connected
    /\ Becomes(onDisconnect(World), Op("disconnect", 0, "", <<>>, "", TRUE))

\* the server closes the connection: 'disconnect' with 'io server disconnect'
ServerDisconnect ==
    /\ ws.connected
    /\ Becomes(onServerDisconnect(World), Op("server_disconnect", 0, "", <<>>, "", TRUE))

\* the first connection attempt fails: the socket's 'connect_error' event
ConnectError ==
    /\ ws.socket /\ ws.lib = "opening" /\ ws.connectionPromise = "pending"
    /\ Becomes(onConnectError(World), Op("connect_error", 0, "", <<>>, "", TRUE))

\* a reconnection attempt of the socket library fails: 'reconnect_error'
ReconnectError ==
    /\ ws.socket /\ ws.lib = "opening" /\ ws.connectionPromise # "pending"
    /\ ws.libFailures < maxReconnectAttempts
    /\ Becomes(handleReconnectError(World), Op("reconnect_error", 0, "", <<>>, "", TRUE))

\* the socket library gives up after reconnectionAttempts failures:
\* 'reconnect_failed'
ReconnectFailed ==
    /\ ws.socket /\ ws.lib = "opening"
    /\ ws.libFailures = maxReconnectAttempts
    /\ Becomes(onReconnectFailed(World), Op("reconnect_failed", 0, "", <<>>, "", TRUE))

\* the socket library reconnected: 'reconnect', after the 'connect' event
Reconnected ==
    /\ ws.connected /\ last.op = "connect" /\ Connects > 1
    /\ Becomes(onReconnect(World), Op("reconnect", 0, "", <<>>, "", TRUE))

\* the 3000 ms timer of attemptReconnect elapses
ReconnectTimerFire ==
    /\ ws.reconnectTimers > 0
    /\ Becomes(reconnectTimeout(World), Op("reconnectTimer", 0, "", <<>>, "", TRUE))

\* the page calls initializeCollaboration(emailId) for a document it has not
\* opened before, or with no id
InitializeCollaboration(ids) ==
    \E emailId \in ids :
       /\ \A i \in 1..Len(mgrs) : mgrs[i].emailId # emailId
       /\ Becomes(initializeCollaboration(World, emailId),
                  OpInitialize(Len(mgrs) + 1, emailId, emailId # ""))

\* the tab is hidden or shown
VisibilityChange ==
    Becomes(dispatchVisibility([World EXCEPT !.dom.hidden = ~dom.hidden], 1),
            Op("visibilitychange", 0, "", <<>>, "", TRUE))

\* the user edits a field of the visible page: an 'input' event
LocalInput(kinds, lo, hi) ==
    /\ ~dom.hidden
    /\ HistoryRoom(lo, hi)
    /\ \E kind \in kinds, content \in SessionTexts :
          /\ content # dom.value[kind]
          /\ Becomes(dispatchInput([World EXCEPT !.dom = setValue(@, kind, content)],
                                   1, content, kind),
                     Op("input", 0, kind, content, CurrentUser, TRUE))

\* the user clicks or releases a key in emailBody: the caret may have moved
CursorEvent ==
    /\ ~dom.hidden
    /\ \E position \in 0..Len(dom.value["body"]) :
          Becomes(dispatchCursor([World EXCEPT !.dom.caret["body"] = position],
                                 1, position),
                  Op("cursor", 0, "body", <<>>, CurrentUser, TRUE))

\* the 500 ms timer of debouncedSendContentUpdate elapses
ContentTimerFire ==
    \E m \in 1..Len(mgrs) :
       /\ mgrs[m].contentTimer.armed
       /\ Becomes(sendContentUpdate([World EXCEPT !.mgrs[m].contentTimer = NoTimer], m,
                                    mgrs[m].contentTimer.content,
                                    mgrs[m].contentTimer.type),
                  Op("contentTimer", m, mgrs[m].contentTimer.type,
                     mgrs[m].contentTimer.content, "", TRUE))

\* the 100 ms timer of debouncedSendCursorUpdate elapses
CursorTimerFire ==
    \E m \in 1..Len(mgrs) :
       /\ mgrs[m].cursorTimer.armed
       /\ Becomes(sendCursorUpdate([World EXCEPT !.mgrs[m].cursorTimer = NoTimer], m,
                                   mgrs[m].cursorTimer.position),
                  Op("cursorTimer", m, "", <<>>, "", TRUE))

\* the server delivers a content_updated event, and nothing else happens in the
\* second after it: the indicator timers run before the next step
ContentUpdated(lo, hi) ==
    /\ ws.connected
    /\ HistoryRoom(lo, hi)
    /\ \E user \in UserIds, kind \in FieldKinds, content \in SessionTexts :
          LET handled == dispatchContentUpdated(World, ws.listeners,
                            [user_id |-> user, content |-> content,
                             content_type |-> kind])
          IN  Becomes([handled EXCEPT !.dom = runPulses(@)],
                      Op("content_updated", 0, kind, content, user, TRUE))

\* the most indicator timers pending when a further event arrives
MaxPulses == 4

\* the server delivers a content_updated event, and the next step may come
\* before the indicator timers have run
ContentUpdatedInBurst(lo, hi) ==
    /\ ws.connected
    /\ HistoryRoom(lo, hi)
    /\ Len(dom.pulses) < MaxPulses
    /\ \E user \in UserIds, kind \in FieldKinds, content \in SessionTexts :
          Becomes(dispatchContentUpdated(World, ws.listeners,
                     [user_id |-> user, content |-> content, content_type |-> kind]),
                  Op("content_updated", 0, kind, content, user, TRUE))

\* the server delivers a content_updated event that has no content
ContentUpdatedWithoutContent ==
    /\ ws.connected
    /\ \E user \in UserIds, kind \in FieldKinds :
          Becomes(dispatchContentUpdated(World, ws.listeners,
                     [user_id |-> user, content |-> Undefined, content_type |-> kind]),
                  Op("content_updated", 0, kind, Undefined, user, TRUE))

\* the page calls undo() on the current manager
Undo(lo) ==
    /\ Len(mgrs) > 0
    /\ Len(mgrs[Len(mgrs)].contentHistory) >= lo
    /\ Becomes(undo(World, Len(mgrs)),
               Op("undo", Len(mgrs), "", <<>>, "", undoReturns(World, Len(mgrs))))

\* the page calls forceSync() on the current manager
ForceSync ==
    /\ Len(mgrs) > 0
    /\ Becomes(forceSync(World, Len(mgrs)), Op("forceSync", Len(mgrs), "", <<>>, "", TRUE))

\* the page calls leaveCollaboration() on the current manager
Leave ==
    /\ Len(mgrs) > 0
    /\ Becomes(leaveCollaboration(World, Len(mgrs)),
               Op("leaveCollaboration", Len(mgrs), "", <<>>, "", TRUE))

\* the page is about to unload: the 'beforeunload' event
BeforeUnload ==
    Becomes(dispatchBeforeUnload(World, 1), Op("beforeunload", 0, "", <<>>, "", TRUE))

\* the users the server reports on
ThirdUser == "u3"
Roster == UserIds \cup {ThirdUser}

\* the presence payloads about the users R
Payloads(R) ==
    {Presence(u, l, us) : u \in R, l \in BOOLEAN, us \in SUBSET R}

\* the server delivers a collaboration_joined, user_joined or user_left event
PresenceEvent(event, R) ==
    /\ ws.connected
    /\ \E data \in Payloads(R) :
          /\ data.listed \/ data.active_users = {}
          /\ Becomes(dispatchPresence(World, ws.listeners, event, data),
                     OpPresence(event, data.user_id, data.listed, data.active_users))

CollaborationJoined(R) == PresenceEvent("collaboration_joined", R)
UserJoined(R) == PresenceEvent("user_joined", R)
UserLeft(R) == PresenceEvent("user_left", R)

\* the server delivers a cursor_moved event
CursorMoved(R) ==
    /\ ws.connected
    /\ \E user \in R :
          Becomes(dispatchPresence(World, ws.listeners, "cursor_moved",
                                   Presence(user, FALSE, {})),
                  OpPresence("cursor_moved", user, FALSE, {}))

\* the page calls connect() on the channel
ConnectCall ==
    Becomes(connect(World), Op("connect()", 0, "", <<>>, "", TRUE))

\* the page calls disconnect() on the channel (not once the attempt counter,
\* which only a connect event resets, has passed the maximum)
DisconnectCall ==
    /\ ws.socket
    /\ ws.reconnectAttempts <= maxReconnectAttempts
    /\ Becomes(disconnect(World), Op("disconnect()", 0, "", <<>>, "", TRUE))

\* 30000 ms have passed on an interval of setupPingPong
Heartbeat ==
    /\ ws.pingIntervals > 0
    /\ Becomes(pingInterval(World), Op("heartbeat", 0, "", <<>>, "", TRUE))

\* the oldest pending 1000 ms timer of a content update indicator elapses
PulseTimerFire ==
    /\ dom.pulses # <<>>
    /\ Becomes([World EXCEPT !.dom = pulseTimeout(@)],
               Op("pulseTimer", 0, "", <<>>, "", TRUE))

\* a 5000 ms timer of showCollaboratorCursor elapses
MarkerTimerFire ==
    \E m \in 1..Len(mgrs) :
       \E t \in mgrs[m].markerTimers, over \in BOOLEAN :
          /\ over => t.fresh
          /\ Becomes(cursorTimeout(World, m, t, over),
                     Op("markerTimer", m, IF t.fresh THEN "fresh" ELSE "stale",
                        <<>>, t.user, over))

(* Spec: one session, content synchronisation, history and undo *)
Next ==
    \/ SocketConnect
    \/ InitializeCollaboration({"e1"})
    \/ LocalInput(FieldKinds, 0, MaxHist)
    \/ ContentTimerFire
    \/ ContentUpdated(0, MaxHist)
    \/ Undo(0)

Spec == Init /\ [][Next]_vars

(* Spec2: the session life cycle and what a session sends; the user types
   into emailBody, forceSync sends both fields *)
Next2 ==
    \/ SocketConnect
    \/ SocketDisconnect
    \/ InitializeCollaboration({"e1", ""})
    \/ VisibilityChange
    \/ LocalInput({"body"}, 0, MaxTyped)
    \/ CursorEvent
    \/ ContentTimerFire
    \/ CursorTimerFire
    \/ ForceSync
    \/ Leave

Spec2 == Init /\ [][Next2]_vars

(* SpecChannel: the channel's connection, its reconnection and what one
   session sends through it *)
NextChannel ==
    \/ SocketConnect
    \/ SocketDisconnect
    \/ ServerDisconnect
    \/ ConnectError
    \/ ReconnectError
    \/ ReconnectFailed
    \/ Reconnected
    \/ ReconnectTimerFire
    \/ InitializeCollaboration({"e1"})
    \/ ForceSync

SpecChannel == Init /\ [][NextChannel]_vars

(* Spec3: presence, remote cursors and the life cycle of one session *)
Next3 ==
    \/ SocketConnect
    \/ InitializeCollaboration({"e1"})
    \/ VisibilityChange
    \/ Leave
    \/ BeforeUnload
    \/ CollaborationJoined(UserIds)
    \/ UserJoined(UserIds)
    \/ UserLeft(UserIds)
    \/ CursorMoved(UserIds)
    \/ MarkerTimerFire

Spec3 == Init /\ [][Next3]_vars

(* SpecPresence: the collaborator map and the presence indicator, three users *)
NextPresence ==
    \/ SocketConnect
    \/ InitializeCollaboration({"e1"})
    \/ Leave
    \/ CollaborationJoined(Roster)
    \/ UserJoined(Roster)
    \/ UserLeft(Roster)

SpecPresence == Init /\ [][NextPresence]_vars

(* SpecJoin: local input around a join request and its confirmation *)
NextJoin ==
    \/ SocketConnect
    \/ InitializeCollaboration({"e1"})
    \/ CollaborationJoined(UserIds)
    \/ LocalInput({"body"}, 0, MaxTyped)
    \/ CursorEvent
    \/ ContentTimerFire
    \/ CursorTimerFire

SpecJoin == Init /\ [][NextJoin]_vars

(* SpecPaused: a session that is paused and resumed while content arrives *)
NextPaused ==
    \/ SocketConnect
    \/ InitializeCollaboration({"e1"})
    \/ VisibilityChange
    \/ LocalInput(FieldKinds, 0, MaxTyped)
    \/ CursorEvent
    \/ ContentTimerFire
    \/ CursorTimerFire
    \/ ContentUpdated(0, MaxTyped)
    \/ ForceSync

SpecPaused == Init /\ [][NextPaused]_vars

(* SpecSwitch: the page opens one document after another *)
NextSwitch ==
    \/ SocketConnect
    \/ SocketDisconnect
    \/ InitializeCollaboration(EmailIds)
    \/ VisibilityChange
    \/ ContentUpdated(0, MaxTyped)

SpecSwitch == Init /\ [][NextSwitch]_vars

(* SpecMalformed: inbound events with unusable payloads *)
NextMalformed ==
    \/ SocketConnect
    \/ InitializeCollaboration({"e1"})
    \/ ContentUpdatedWithoutContent
    \/ UserJoined(UserIds)
    \/ CursorMoved(UserIds)

SpecMalformed == Init /\ [][NextMalformed]_vars

(* SpecDebounce: one session typing on a page that is hidden and shown; the
   timeout of debounce always runs 500 ms after it was set, and the page goes
   on being hidden and shown, so that no run ends with the page left alone *)
NextDebounce ==
    \/ SocketConnect
    \/ InitializeCollaboration({"e1"})
    \/ VisibilityChange
    \/ LocalInput(FieldKinds, 0, MaxTyped)
    \/ ContentTimerFire

SpecDebounce ==
    Init /\ [][NextDebounce]_vars /\ WF_vars(ContentTimerFire) /\ WF_vars(VisibilityChange)

(* SpecPulse: remote updates and the timers of their indicators *)
NextPulse ==
    \/ SocketConnect
    \/ InitializeCollaboration({"e1"})
    \/ ContentUpdatedInBurst(0, MaxTyped)
    \/ PulseTimerFire

SpecPulse == Init /\ [][NextPulse]_vars

(* SpecHeartbeat: the channel connects and reconnects while events arrive *)
NextHeartbeat ==
    \/ SocketConnect
    \/ SocketDisconnect
    \/ InitializeCollaboration({"e1"})
    \/ ContentUpdatedInBurst(0, MaxTyped)
    \/ PulseTimerFire
    \/ Heartbeat

SpecHeartbeat == Init /\ [][NextHeartbeat]_vars

(* SpecConnect: connect() and disconnect() calls around the socket's events *)
NextConnect ==
    \/ SocketConnect
    \/ SocketDisconnect
    \/ ServerDisconnect
    \/ ConnectError
    \/ ReconnectError
    \/ ReconnectFailed
    \/ ReconnectTimerFire
    \/ ConnectCall
    \/ DisconnectCall

SpecConnect == Init /\ [][NextConnect]_vars

(* SpecCursor: calculateNewCursorPosition on every old text, caret and new text *)

Hello == <<"H", "e", "l", "l", "o">>
HelloWorld == Hello \o <<" ", "w", "o", "r", "l", "d">>
HelloCommaWorld == Hello \o <<",", " ", "w", "o", "r", "l", "d">>

CalcInputs ==
    {[NoCalc EXCEPT !.oldContent = o, !.newContent = n, !.oldCursor = c] :
        o \in Strs(MaxCalcLen), n \in Strs(MaxCalcLen), c \in 0..MaxCalcLen}

InitCursor ==
    /\ ws = WebSocketManager
    /\ mgrs = <<>>
    /\ dom = Page
    /\ out = <<>>
    /\ wire = <<>>
    /\ last = Op("init", 0, "", <<>>, "", TRUE)
    /\ \/ calc \in {i \in CalcInputs : i.oldCursor <= Len(i.oldContent)}
       \/ calc = [NoCalc EXCEPT !.oldContent = HelloWorld,
                                !.newContent = HelloCommaWorld,
                                !.oldCursor = Len(Hello)]

Calculate ==
    /\ ~calc.done
    /\ calc' = [calc EXCEPT !.done = TRUE,
                            !.result = calculateNewCursorPosition(
                                           calc.oldContent, calc.newContent, calc.oldCursor)]
    /\ UNCHANGED <<ws, mgrs, dom, out, wire, last>>

NextCursor == Calculate

SpecCursor == InitCursor /\ [][NextCursor]_vars

(* SpecHist: one active session whose history is close to the limit *)

\* the i-th of a run of input events that alternate between the fields, each
\* changing its field: body "a", subject "a", body "", subject "", ...
TypedRecord(i) ==
    ContentRecord(IF i % 2 = 1 THEN "body" ELSE "subject",
                  IF ((i + 1) \div 2) % 2 = 1 THEN <<"a">> ELSE <<>>,
                  CurrentUser, FALSE)

\* the value of a field after the first n of these events
TypedValue(kind, n) ==
    LET own == {i \in 1..n : TypedRecord(i).type = kind}
    IN  IF own = {} THEN <<>>
        ELSE TypedRecord(CHOOSE i \in own : \A j \in own : j <= i).content

HistFloor == HistoryLimit - MaxBelow
HistCeiling == HistoryLimit + MaxOver

InitHist ==
    /\ ws = [WebSocketManager EXCEPT !.connected = TRUE, !.isAuthenticated = TRUE,
                                     !.connectionPromise = "resolved",
                                     !.listeners = <<0, 1>>, !.pingIntervals = 1]
    /\ mgrs = <<[NewManager("e1") EXCEPT
                    !.isActive = TRUE, !.listening = TRUE,
                    !.contentTimer =
                        [armed |-> TRUE, content |-> TypedRecord(HistFloor).content,
                         type |-> TypedRecord(HistFloor).type, position |-> 0],
                    !.contentHistory = [i \in 1..HistFloor |-> TypedRecord(i)]]>>
    /\ dom = [Page EXCEPT
                !.value = [k \in FieldKinds |-> TypedValue(k, HistFloor)],
                !.caret = [k \in FieldKinds |-> Len(TypedValue(k, HistFloor))]]
    /\ out = <<>>
    /\ wire = <<>>
    /\ last = Op("input", 0, TypedRecord(HistFloor).type,
                 TypedRecord(HistFloor).content, CurrentUser, TRUE)
    /\ calc = NoCalc

NextHist ==
    \/ LocalInput(FieldKinds, HistFloor, HistCeiling)
    \/ ContentUpdated(HistFloor, HistCeiling)
    \/ Undo(HistFloor + 1)

SpecHist == InitHist /\ [][NextHist]_vars

(* SpecApply: one remote update reaches an active session whose fields hold
   any text, with the caret anywhere in it *)
InitApply ==
    /\ ws = [WebSocketManager EXCEPT !.connected = TRUE, !.isAuthenticated = TRUE,
                                     !.connectionPromise = "resolved",
                                     !.listeners = <<0, 1>>, !.pingIntervals = 1]
    /\ mgrs = <<[NewManager("e1") EXCEPT !.isActive = TRUE, !.listening = TRUE]>>
    /\ \E text \in Strs(MaxCalcLen) : \E position \in 0..Len(text) :
          dom = [Page EXCEPT !.value = [k \in FieldKinds |-> text],
                             !.caret = [k \in FieldKinds |-> position]]
    /\ out = <<>>
    /\ wire = <<>>
    /\ last = Op("init", 0, "", <<>>, "", TRUE)
    /\ calc = NoCalc

\* the server delivers the first content_updated event, with any text
FirstContentUpdated ==
    /\ ws.connected
    /\ \A i \in 1..Len(mgrs) : mgrs[i].contentHistory = <<>>
    /\ \E user \in UserIds, kind \in FieldKinds, content \in Strs(MaxCalcLen) :
          LET handled == dispatchContentUpdated(World, ws.listeners,
                            [user_id |-> user, content |-> content,
                             content_type |-> kind])
          IN  Becomes([handled EXCEPT !.dom = runPulses(@)],
                      Op("content_updated", 0, kind, content, user, TRUE))

SpecApply == InitApply /\ [][FirstContentUpdated]_vars

----------------------------------------------------------------------------
(* Properties *)

\* the history of the manager an operation was called on
History(m) == mgrs[m].contentHistory

\* a manager's channel handlers are attached to the socket
SessionListens == \E i \in 1..Len(ws.listeners) : ws.listeners[i] # 0

\* t occurs in s at offset i
OccursAt(s, t, i) ==
    /\ i + Len(t) <= Len(s)
    /\ \A k \in 1..Len(t) : s[i + k] = t[k]

\* C1: once a content_updated event of a remote originator has been handled by
\* a session, the field the event targets holds the event's content, whatever
\* input events, timers and other updates came before it.
C1_RemoteContentIsFieldValue ==
    (last.op = "content_updated" /\ last.user # CurrentUser /\ SessionListens)
        => dom.value[last.kind] = last.content

C1_Witness ==
    /\ last.op = "content_updated" /\ last.user # CurrentUser /\ SessionListens
    /\ last.kind = "subject" /\ last.content = <<>>
    /\ Len(mgrs) = 1 /\ mgrs[1].contentTimer.armed
    /\ mgrs[1].contentTimer.type = "subject"
    /\ Len(History(1)) = MaxHist

\* C2: a content_updated event that carries the local user's id changes no
\* field value and no history.
C2_OwnEventIsNoOp ==
    [][(last'.op = "content_updated" /\ last'.user = CurrentUser)
          => (dom' = dom /\ mgrs' = mgrs)]_vars

C2_Witness ==
    /\ last.op = "content_updated" /\ last.user = CurrentUser /\ SessionListens
    /\ Len(mgrs) = 1 /\ mgrs[1].isActive /\ History(1) # <<>>
    /\ dom.value[last.kind] # last.content

\* C3: no history ever holds more than 100 records.
C3_HistoryAtMostLimit ==
    \A m \in 1..Len(mgrs) : Len(History(m)) <= HistoryLimit

\* C4, as claimed: an input event on a history of 100 records leaves the last
\* 50 of them followed by the new record, 51 records.
C4_CutThenPush ==
    [][(last'.op = "input" /\ mgrs[1].isActive /\ Len(History(1)) = HistoryLimit)
          => mgrs'[1].contentHistory =
                Append(sliceLast(History(1), HistoryKeep),
                       ContentRecord(last'.kind, last'.content, CurrentUser, FALSE))]_vars

\* C4, amended: an input event on a history of 100 records (or more) leaves 50
\* records, the last 49 of them followed by the new record.
C4_PushThenCut ==
    [][(last'.op = "input" /\ mgrs[1].isActive /\ Len(History(1)) >= HistoryLimit)
          => /\ Len(mgrs'[1].contentHistory) = HistoryKeep
             /\ \A k \in 1..(HistoryKeep - 1) :
                   mgrs'[1].contentHistory[k] =
                       History(1)[Len(History(1)) - (HistoryKeep - 1) + k]
             /\ mgrs'[1].contentHistory[HistoryKeep] =
                   ContentRecord(last'.kind, last'.content, CurrentUser, FALSE)]_vars

C4_Witness ==
    /\ last.op = "input"
    /\ Len(History(1)) = HistoryKeep
    /\ History(1)[HistoryKeep] = ContentRecord(last.kind, last.content, CurrentUser, FALSE)

\* C5: undo() on a history of fewer than two records returns failure and
\* changes no field and no history.
C5_UndoNeedsTwoRecords ==
    [][(last'.op = "undo" /\ Len(History(last'.mgr)) < 2)
          => (~last'.ret /\ dom' = dom /\ mgrs' = mgrs)]_vars

C5_Witness ==
    /\ last.op = "undo" /\ ~last.ret
    /\ Len(History(last.mgr)) = 1
    /\ dom.value[History(last.mgr)[1].type] # History(last.mgr)[1].content

\* C6: undo() on a history of two or more records returns success, removes the
\* last record, gives the field of the removed record's kind the content of the
\* last remaining record of that kind, and leaves the other field alone.
C6_UndoRestoresSameKind ==
    [][(last'.op = "undo" /\ Len(History(last'.mgr)) >= 2)
          => LET h       == History(last'.mgr)
                 removed == h[Len(h)]
                 same    == {i \in 1..(Len(h) - 1) : h[i].type = removed.type}
             IN  /\ last'.ret
                 /\ mgrs'[last'.mgr].contentHistory = SubSeq(h, 1, Len(h) - 1)
                 /\ same # {} =>
                       dom'.value[removed.type] =
                           h[CHOOSE i \in same : \A j \in same : j <= i].content
                 /\ \A k \in FieldKinds \ {removed.type} :
                       dom'.value[k] = dom.value[k]]_vars

\* C7: when the text before the old caret occurs in the new text, the new caret
\* is the end of its leftmost occurrence, whether or not the text after the old
\* caret occurs too; "Hello world" with caret 5 and "Hello, world" give 5.
C7_PrefixRule ==
    calc.done =>
        LET beforeCursor == SubSeq(calc.oldContent, 1, calc.oldCursor)
        IN  /\ \A i \in 0..Len(calc.newContent) :
                  (/\ OccursAt(calc.newContent, beforeCursor, i)
                   /\ \A j \in 0..(i - 1) : ~OccursAt(calc.newContent, beforeCursor, j))
                      => calc.result = i + Len(beforeCursor)
            /\ (/\ calc.oldContent = HelloWorld
                /\ calc.newContent = HelloCommaWorld
                /\ calc.oldCursor = 5) => calc.result = 5

C7_Witness ==
    /\ calc.done
    /\ calc.oldContent = HelloWorld /\ calc.newContent = HelloCommaWorld
    /\ calc.oldCursor = 5 /\ calc.result = 5
    /\ OccursAt(calc.newContent, SubSeq(calc.oldContent, 6, 11), 6)

\* C8: for every old text, caret within it and new text, the new caret is an
\* offset of the new text.
C8_ResultInRange ==
    calc.done => calc.result \in 0..Len(calc.newContent)

C8_Witness ==
    /\ calc.done
    /\ calc.result = 1 /\ Len(calc.newContent) = 1 /\ Len(calc.oldContent) = 3
    /\ \A i \in 0..1 :
          /\ ~OccursAt(calc.newContent, SubSeq(calc.oldContent, 1, calc.oldCursor), i)
          /\ ~OccursAt(calc.newContent,
                       SubSeq(calc.oldContent, calc.oldCursor + 1, 3), i)

\* the events a manager asked the channel to send, or the socket was given, in
\* the last step
SentBy(m) ==
    {out[i].event : i \in {j \in 1..Len(out) : out[j].src = m}}
        \cup {wire[i].ev.event : i \in {j \in 1..Len(wire) : wire[j].ev.src = m}}

\* C9: a session started with no document id, or started or resumed while the
\* channel is not connected, sends nothing and is not active afterwards.
C9_FailedJoinSendsNothing ==
    [][/\ (last'.op = "initializeCollaboration" /\ last'.email = "")
            => (out' = <<>> /\ wire' = <<>> /\ mgrs' = mgrs)
       /\ (last'.op = "initializeCollaboration" /\ last'.email # "" /\ ~isConnected(ws))
            => (/\ Len(mgrs') = last'.mgr
                /\ ~mgrs'[last'.mgr].isActive
                /\ \A i \in 1..Len(out') : out'[i].src # last'.mgr
                /\ \A i \in 1..Len(wire') : wire'[i].ev.src # last'.mgr)
       /\ (last'.op = "visibilitychange" /\ ~isConnected(ws))
            => (/\ \A m \in 1..Len(mgrs) : ~mgrs[m].isActive => ~mgrs'[m].isActive
                /\ out' = <<>> /\ wire' = <<>>)]_vars

C9_Witness ==
    /\ last.op = "initializeCollaboration" /\ last.email = "e1"
    /\ ws.socket /\ ~isConnected(ws) /\ Connects > 0
    /\ Len(mgrs) = 1 /\ ~mgrs[1].isActive /\ mgrs[1].listening
    /\ out = <<>> /\ wire = <<>>

\* C10: a session that is not active sends no email_content_change and no
\* cursor_update, not from a timer armed while it was active and not from
\* forceSync.
C10_InactiveSendsNoUpdates ==
    \A m \in 1..Len(mgrs) :
        ~mgrs[m].isActive =>
            SentBy(m) \cap {"email_content_change", "cursor_update"} = {}

C10_Witness ==
    /\ last.op = "contentTimer"
    /\ ~mgrs[last.mgr].isActive /\ mgrs[last.mgr].listening
    /\ isConnected(ws)
    /\ out = <<>> /\ wire = <<>>

----------------------------------------------------------------------------
(* Presence and remote cursors *)

\* the users a remote-cursor marker is displayed for: by the session's element
\* collaborator-cursor-<id> or by the channel's element cursor-<id>
Displayed == dom.markers \cup dom.wsMarkers

\* the sessions whose handlers the socket calls
Registered == {m \in 1..Len(mgrs) : \E i \in 1..Len(ws.listeners) : ws.listeners[i] = m}

PresenceEvents == {"collaboration_joined", "user_joined", "user_left"}

\* C11: in every reachable state in which a session is not active, no
\* remote-cursor marker is displayed.
C11_InactiveShowsNoMarker ==
    \A m \in 1..Len(mgrs) : ~mgrs[m].isActive => Displayed = {}

\* C12: when an active session leaves, right afterwards every remote cursor
\* marker is removed, the presence indicator is hidden and the collaborator map
\* is empty.
C12_LeaveClearsPresence ==
    [][\A m \in 1..Len(mgrs) :
          (/\ mgrs[m].isActive
           /\ \/ last'.op = "leaveCollaboration" /\ last'.mgr = m
              \/ last'.op = "beforeunload" /\ mgrs[m].listening)
          => (/\ dom'.markers \cup dom'.wsMarkers = {}
              /\ dom'.indicatorHidden
              /\ mgrs'[m].collaborators = {})]_vars

\* C13: after every collaboration_joined, user_joined and user_left event, with
\* or without a list of active users, the presence indicator is hidden exactly
\* when the collaborator map is empty, and otherwise shows the size of the map.
C13_IndicatorShowsMapSize ==
    last.op \in PresenceEvents =>
        \A m \in Registered :
            /\ dom.indicatorHidden <=> mgrs[m].collaborators = {}
            /\ ~dom.indicatorHidden => dom.count = Cardinality(mgrs[m].collaborators)

\* C14: once the 5-second timer of the last cursor update for a collaborator
\* has run, with no further update for that collaborator in between, the
\* collaborator's marker is no longer displayed.
C14_ExpiredMarkerRemoved ==
    (/\ last.op = "markerTimer" /\ last.kind = "fresh"
     /\ \A t \in mgrs[last.mgr].markerTimers : t.user # last.user)
    => last.user \notin dom.markers

\* C15: after a presence event that carries a list of active users, the keys
\* of the collaborator map are exactly the listed ids but the local user's, so
\* collaborators the list omits are dropped; and the local user's id is never
\* a key of the map.
C15_MapIsListWithoutSelf ==
    /\ \A m \in 1..Len(mgrs) : getCurrentUserId \notin mgrs[m].collaborators
    /\ (last.op \in PresenceEvents /\ last.listed)
            => \A m \in Registered : mgrs[m].collaborators = last.users \ {getCurrentUserId}

C15_Witness ==
    /\ last.op = "user_left" /\ last.listed /\ last.user = OtherUser
    /\ last.users = {CurrentUser, ThirdUser}
    /\ Registered = {1}
    /\ mgrs[1].collaborators = {ThirdUser}
    /\ ~dom.indicatorHidden /\ dom.count = 1

----------------------------------------------------------------------------
(* The channel *)

\* C16: an event passed to emit() while the channel is disconnected is not
\* dropped: after the call it waits for the connection, on the pending promise
\* or in the socket's buffer, and the 'connect' event sends every event that
\* waits on the promise exactly once.
C16_DisconnectedEmitIsHeld ==
    [][/\ (out' # <<>> /\ ~(ws.socket /\ ws.connected))
            => ws'.thenQueue \o [i \in 1..Len(wire') |-> wire'[i].ev]
                    = ws.thenQueue \o out'
       /\ last'.op = "connect"
            => (/\ ws'.thenQueue = <<>>
                /\ [i \in 1..Len(wire') |-> wire'[i].ev] = ws.thenQueue
                /\ \A i \in 1..Len(wire') : wire'[i].connected)]_vars

\* C17: once maxReconnectAttempts reconnection attempts have failed, the
\* channel shows the terminal notification when the socket gives up, and no
\* step schedules a reconnect attempt after the fifth failure or while the
\* attempt counter is at the maximum.
C17_ReconnectIsBounded ==
    [][/\ last'.op = "reconnect_failed"
            => (/\ ws.libFailures = maxReconnectAttempts
                /\ ws'.notice = "Connection lost. Please refresh")
       /\ (ws.libFailures = maxReconnectAttempts
                \/ ws.reconnectAttempts >= maxReconnectAttempts)
            => ws'.reconnectTimers <= ws.reconnectTimers]_vars

C17_Witness ==
    /\ last.op = "reconnect_failed"
    /\ ws.reconnectAttempts = maxReconnectAttempts
    /\ ws.lib = "closed" /\ ~ws.connected
    /\ ws.notice = "Connection lost. Please refresh"
    /\ ws.reconnectTimers = 0

----------------------------------------------------------------------------
(* The life cycle *)

Updates == {"email_content_change", "cursor_update"}

\* C18: between a join request and the collaboration_joined event that
\* confirms it, the session emits no email_content_change and no cursor_update.
C18_NoUpdatesBeforeConfirmation ==
    \A m \in 1..Len(mgrs) :
        SentBy(m) \cap Updates # {} => mgrs[m].confirmed

\* C19: a paused session emits no email_content_change and no cursor_update,
\* and a content_updated event of another user that reaches it sets the field
\* the event targets and appends one record to the history.
C19_PausedStillReceives ==
    [][\A m \in 1..Len(mgrs) :
          /\ mgrs'[m].paused =>
                \A e \in Updates :
                    /\ \A i \in 1..Len(out') : ~(out'[i].src = m /\ out'[i].event = e)
                    /\ \A i \in 1..Len(wire') :
                            ~(wire'[i].ev.src = m /\ wire'[i].ev.event = e)
          /\ (/\ mgrs[m].paused /\ m \in Registered
              /\ last'.op = "content_updated" /\ last'.user # CurrentUser)
             => (/\ dom'.value[targetElement(last'.kind)] = last'.content
                 /\ mgrs'[m].contentHistory =
                        Append(mgrs[m].contentHistory,
                               ContentRecord(last'.kind, last'.content, last'.user, TRUE)))
      ]_vars

C19_Witness ==
    /\ last.op = "content_updated" /\ last.user = OtherUser
    /\ last.kind = "subject" /\ last.content = <<"a">>
    /\ Len(mgrs) = 1 /\ mgrs[1].paused /\ ~mgrs[1].isActive /\ dom.hidden
    /\ 1 \in Registered
    /\ dom.value["subject"] = <<"a">>
    /\ Len(mgrs[1].contentHistory) = 2
    /\ ~mgrs[1].contentHistory[1].applied /\ mgrs[1].contentHistory[2].applied

\* C20: a leaveCollaboration() call or a page unload on a session that is
\* active or paused emits leave_collaboration with the session's document id,
\* removes the session's cursor markers, hides the presence indicator and
\* leaves the session neither active nor paused.
C20_LeaveFromActiveOrPaused ==
    [][\A m \in 1..Len(mgrs) :
          (/\ mgrs[m].isActive \/ mgrs[m].paused
           /\ \/ last'.op = "leaveCollaboration" /\ last'.mgr = m
              \/ last'.op = "beforeunload" /\ mgrs[m].listening)
          => (/\ \E i \in 1..Len(out') :
                    /\ out'[i].event = "leave_collaboration"
                    /\ out'[i].src = m
                    /\ out'[i].email_id = mgrs[m].emailId
              /\ dom'.markers = {}
              /\ dom'.indicatorHidden
              /\ ~mgrs'[m].isActive /\ ~mgrs'[m].paused)]_vars

----------------------------------------------------------------------------
(* Several sessions *)

\* the sessions that were joined and have not left since
Engaged == {m \in 1..Len(mgrs) : mgrs[m].isActive \/ mgrs[m].paused}

\* C21: when initializeCollaboration starts a session for another document
\* while the current session is active or paused, leave_collaboration for the
\* old document is emitted, and before any join_collaboration of that call.
C21_OldSessionLeftFirst ==
    [][(/\ last'.op = "initializeCollaboration" /\ last'.ret
        /\ Len(mgrs) > 0
        /\ Len(mgrs) \in Engaged)
       => \E i \in 1..Len(out') :
             /\ out'[i].event = "leave_collaboration"
             /\ out'[i].email_id = mgrs[Len(mgrs)].emailId
             /\ \A j \in 1..Len(out') : out'[j].event = "join_collaboration" => i < j]_vars

\* C27: at most one session is active or paused at a time, and a
\* content_updated event is written to the fields by that session only.
C27_OneSessionOwnsFields ==
    /\ Cardinality(Engaged) <= 1
    /\ last.op = "content_updated" /\ last.user # CurrentUser
            => \A m \in 1..Len(mgrs) :
                  (/\ mgrs[m].contentHistory # <<>>
                   /\ mgrs[m].contentHistory[Len(mgrs[m].contentHistory)]
                        = ContentRecord(last.kind, last.content, last.user, TRUE))
                  => m \in Engaged

----------------------------------------------------------------------------
(* Inbound events *)

\* C22: a content_updated event without a content, and a cursor_moved event of
\* a user no session knows as a collaborator, change no field value, no
\* history, no collaborator map and no cursor marker.
C22_MalformedEventIsDropped ==
    [][(\/ last'.op = "content_updated" /\ last'.content = Undefined
        \/ /\ last'.op = "cursor_moved"
           /\ \A m \in 1..Len(mgrs) : last'.user \notin mgrs[m].collaborators)
       => (/\ dom'.value = dom.value
           /\ dom'.markers = dom.markers /\ dom'.wsMarkers = dom.wsMarkers
           /\ Len(mgrs') = Len(mgrs)
           /\ \A m \in 1..Len(mgrs) :
                  /\ mgrs'[m].contentHistory = mgrs[m].contentHistory
                  /\ mgrs'[m].collaborators = mgrs[m].collaborators)]_vars

----------------------------------------------------------------------------
(* Debounced sending *)

\* the pending call of debouncedSendContentUpdate of manager m
Pending(m) == mgrs[m].contentTimer

\* C23: every input event an active session handles sends nothing and
\* replaces the pending call by one with its own content; nothing but an input
\* or the timer changes a pending call; and when the timer elapses on an active
\* session exactly one email_content_change goes out, with the content of the
\* last input.
C23_BurstSendsLastOnce ==
    [][\A m \in 1..Len(mgrs) :
          /\ (last'.op = "input" /\ mgrs[m].listening /\ mgrs[m].isActive)
                => (/\ mgrs'[m].contentTimer =
                          [armed |-> TRUE, content |-> last'.content,
                           type |-> last'.kind, position |-> 0]
                    /\ \A i \in 1..Len(out') : out'[i].src # m)
          /\ (Pending(m).armed /\ mgrs'[m].contentTimer # Pending(m))
                => last'.op \in {"input", "contentTimer"}
          /\ (last'.op = "contentTimer" /\ last'.mgr = m /\ mgrs[m].isActive)
                => (/\ out' = <<Event("email_content_change", m, mgrs[m].emailId,
                                       Pending(m).content, Pending(m).type, -1)>>
                    /\ ~mgrs'[m].contentTimer.armed)]_vars

C23_Witness ==
    /\ last.op = "contentTimer" /\ last.mgr = 1
    /\ mgrs[1].isActive
    /\ Len(mgrs[1].contentHistory) = 2
    /\ mgrs[1].contentHistory[1] = ContentRecord("body", <<"a">>, CurrentUser, FALSE)
    /\ mgrs[1].contentHistory[2] = ContentRecord("body", <<>>, CurrentUser, FALSE)
    /\ Len(out) = 1 /\ out[1].event = "email_content_change"
    /\ out[1].content = <<>> /\ out[1].content_type = "body"

\* C24: an input event on one field leaves a pending emission for the other
\* field pending.
C24_TimerPerField ==
    [][\A m \in 1..Len(mgrs) :
          (/\ last'.op = "input" /\ mgrs[m].listening /\ mgrs[m].isActive
           /\ Pending(m).armed /\ Pending(m).type # last'.kind)
          => (/\ mgrs'[m].contentTimer.armed
              /\ mgrs'[m].contentTimer.type = Pending(m).type
              /\ mgrs'[m].contentTimer.content = Pending(m).content)]_vars

\* C25: in every run in which the page does not stay hidden for ever, every
\* input event captured by a session (its content is the pending call of the
\* session's debounced sender) is eventually followed by an emitted
\* email_content_change for the same field.
C25_CapturedInputIsSent ==
    \A kind \in FieldKinds :
       ([]<>(~dom.hidden))
       => ((/\ last.op = "input" /\ last.kind = kind
            /\ \E m \in 1..Len(mgrs) :
                  /\ Pending(m).armed
                  /\ Pending(m).type = kind /\ Pending(m).content = last.content)
           ~> (\E i \in 1..Len(out) :
                  out[i].event = "email_content_change" /\ out[i].content_type = kind))

(* Resuming *)

\* the page is shown again: the step is a visibilitychange that finds manager m
\* paused
Shown(m) ==
    /\ last'.op = "visibilitychange" /\ ~dom'.hidden
    /\ mgrs[m].listening /\ mgrs[m].paused

\* manager m sends a join_collaboration for its email in this step
Rejoins(m) ==
    \E i \in 1..Len(out') :
       out'[i] = Event("join_collaboration", m, mgrs[m].emailId, <<>>, "", -1)

\* C26 as stated: whenever the page becomes visible while a session is paused,
\* the session re-sends join_collaboration for its email and is active again.
C26_ResumeRejoins ==
    [][\A m \in 1..Len(mgrs) :
          Shown(m) => (Rejoins(m) /\ mgrs'[m].isActive /\ ~mgrs'[m].paused)]_vars

\* C26: when the page becomes visible while a session is paused and the channel
\* is connected, the session re-sends join_collaboration for its email and is
\* active again; when the channel is not connected the session sends nothing
\* and stays paused.
C26_ResumeRejoinsWhenConnected ==
    [][\A m \in 1..Len(mgrs) :
          Shown(m) =>
             IF isConnected(ws)
             THEN Rejoins(m) /\ mgrs'[m].isActive /\ ~mgrs'[m].paused
             ELSE /\ \A i \in 1..Len(out') : out'[i].src # m
                  /\ ~mgrs'[m].isActive /\ mgrs'[m].paused]_vars

C26_Witness ==
    /\ last.op = "visibilitychange" /\ ~dom.hidden
    /\ Len(mgrs) = 1 /\ mgrs[1].isActive /\ ~mgrs[1].paused
    /\ mgrs[1].contentTimer.armed
    /\ out = <<Event("join_collaboration", 1, "e1", <<>>, "", -1)>>

(* After leaving *)

\* C28: an inbound event delivered to a session that has just left (the last
\* step was its leaveCollaboration, which emitted leave_collaboration) changes
\* neither its history, nor its collaborator map, nor its cursor markers.
C28_LeftSessionIgnoresInbound ==
    [][\A m \in 1..Len(mgrs) :
          LET InboundEvents ==
                  {"content_updated", "cursor_moved", "user_joined", "user_left",
                   "collaboration_joined"}
              JustLeft ==
                  /\ last.op \in {"leaveCollaboration", "beforeunload"}
                  /\ ~mgrs[m].isActive
                  /\ \E i \in 1..Len(out) :
                        out[i].event = "leave_collaboration" /\ out[i].src = m
          IN
          (JustLeft /\ last'.op \in InboundEvents)
          => (/\ mgrs'[m].contentHistory = mgrs[m].contentHistory
              /\ mgrs'[m].collaborators = mgrs[m].collaborators
              /\ dom'.markers = dom.markers)]_vars

(* Cursor recomputation, the text after the caret *)

\* C29: when the text before the old caret does not occur in the new text and
\* the text after it does, the new caret is the start of the leftmost occurrence
\* of the text after; when neither occurs, the new caret is the rounded
\* proportional position.
C29_SuffixRule ==
    calc.done =>
        LET beforeCursor == SubSeq(calc.oldContent, 1, calc.oldCursor)
            afterCursor  == SubSeq(calc.oldContent, calc.oldCursor + 1,
                                   Len(calc.oldContent))
            Occurs(t) == \E i \in 0..Len(calc.newContent) :
                            OccursAt(calc.newContent, t, i)
        IN  /\ (~Occurs(beforeCursor) /\ Occurs(afterCursor))
                  => /\ OccursAt(calc.newContent, afterCursor, calc.result)
                     /\ \A j \in 0..(calc.result - 1) :
                           ~OccursAt(calc.newContent, afterCursor, j)
            /\ (~Occurs(beforeCursor) /\ ~Occurs(afterCursor))
                  => calc.result = roundProportion(Len(calc.newContent), calc.oldCursor,
                                                   Len(calc.oldContent))

C29_Witness ==
    /\ calc.done
    /\ calc.oldContent = <<"a", "b">> /\ calc.oldCursor = 1
    /\ calc.newContent = <<"b", "b">>
    /\ \A i \in 0..2 : ~OccursAt(calc.newContent, <<"a">>, i)
    /\ OccursAt(calc.newContent, <<"b">>, 1)
    /\ calc.result = 0
    /\ roundProportion(2, 1, 2) = 1

(* The order of applied updates *)

\* C30: a content_updated event of another user appends to the history of
\* every listening session exactly one record, marked applied, with the event's
\* field, content and originator, after all records already there; no other
\* step adds, changes or reorders applied records.
C30_AppliedInDeliveryOrder ==
    [][\A m \in 1..Len(mgrs) :
          LET AppliedRecords(h) == SelectSeq(h, LAMBDA r : r.applied)
              IsRunOf(g, h) ==
                  \E i \in 0..(Len(h) - Len(g)) : \A k \in 1..Len(g) : g[k] = h[i + k]
          IN
          IF last'.op = "content_updated" /\ last'.user # getCurrentUserId
                /\ mgrs[m].listening
          THEN History(m)' =
                  Append(History(m),
                         ContentRecord(last'.kind, last'.content, last'.user, TRUE))
          ELSE IsRunOf(AppliedRecords(History(m)'), AppliedRecords(History(m)))]_vars

C30_Witness ==
    /\ last.op = "content_updated"
    /\ Len(mgrs) = 1
    /\ History(1) = <<ContentRecord("body", <<"a">>, "u2", TRUE),
                      ContentRecord("body", <<>>, "u2", TRUE)>>
    /\ dom.value["body"] = <<>>

(* The content update indicator *)

\* C31: once every timer of the content update indicators has run, the border
\* of emailBody is the border of the loaded page and the glow is off.
C31_PulseReverts ==
    dom.pulses = <<>> => (dom.border = NoBorder /\ ~dom.glow)

(* Reconnecting *)

\* C32: when the timer of a reconnect attempt elapses while the channel is not
\* connected, a new connection is initiated: the socket is connecting afterwards.
C32_ReconnectTimerConnects ==
    [][(last'.op = "reconnectTimer" /\ ~ws.connected
           /\ ws.reconnectAttempts <= maxReconnectAttempts)
          => ws'.lib = "opening"]_vars

C34_OtherFieldUnchanged ==
    [][last'.op = "content_updated"
          => \A k \in FieldKinds \ {last'.kind} : dom'.value[k] = dom.value[k]]_vars

(* Markers and the collaborator map *)

\* C35: every displayed collaborator-cursor marker is the marker of a user in
\* the collaborator map of a session.
C35_MarkerHasCollaborator ==
    \A u \in dom.markers : \E m \in 1..Len(mgrs) : u \in mgrs[m].collaborators

(* Leaving is final *)

\* C36: a session that has left by leaveCollaboration is not active after any
\* later step and sends no join_collaboration in it.
C36_LeftIsTerminal ==
    [][\A m \in 1..Len(mgrs) :
          mgrs[m].left
          => (/\ ~mgrs'[m].isActive
              /\ \A i \in 1..Len(out') :
                    ~(out'[i].event = "join_collaboration" /\ out'[i].src = m))]_vars

(* An update that changes nothing *)

\* C37: a content_updated event of another user whose content is the value the
\* field already holds leaves the field's value and caret as they were.
C37_SameContentKeepsCaret ==
    [][(/\ last'.op = "content_updated" /\ last'.user # getCurrentUserId
        /\ last'.content = dom.value[last'.kind])
          => (/\ dom'.caret[last'.kind] = dom.caret[last'.kind]
              /\ dom'.value[last'.kind] = dom.value[last'.kind])]_vars

C37_Witness ==
    /\ last.op = "content_updated" /\ last.user = OtherUser /\ last.kind = "body"
    /\ last.content = <<"a", "a">>
    /\ dom.value["body"] = <<"a", "a">> /\ dom.caret["body"] = 1
    /\ History(1) = <<ContentRecord("body", <<"a", "a">>, OtherUser, TRUE)>>
    /\ dom.value["subject"] = <<"a", "a">>

(* What undo leaves alone *)

\* C38: undo() sends nothing and changes nothing of the channel; of the
\* sessions it changes only the history of the one it is called on, which stays
\* as it is or loses its last record; of the page it changes at most the value
\* of one field, and with it that field's caret.
C38_UndoFrame ==
    [][last'.op = "undo"
          => LET m == last'.mgr
                 h == History(m)
             IN  /\ out' = <<>> /\ wire' = <<>> /\ ws' = ws
                 /\ mgrs' = [mgrs EXCEPT ![m].contentHistory = mgrs'[m].contentHistory]
                 /\ mgrs'[m].contentHistory \in {h, SubSeq(h, 1, Len(h) - 1)}
                 /\ \E k \in FieldKinds :
                       dom' = [dom EXCEPT !.value[k] = dom'.value[k],
                                          !.caret[k] = dom'.caret[k]]]_vars

C38_Witness ==
    /\ last.op = "undo" /\ last.ret /\ last.mgr = 1
    /\ mgrs[1].isActive /\ mgrs[1].contentTimer.armed
    /\ Len(History(1)) = HistoryLimit - 1
    /\ dom.value[History(1)[Len(History(1))].type]
            = History(1)[Len(History(1))].content
    /\ out = <<>> /\ wire = <<>>

(* Built-in handlers and the heartbeat *)

\* C39: the channel's built-in handlers are registered on the socket at most
\* once, at most one heartbeat interval runs, and a heartbeat sends a ping only
\* while the socket is connected.
C39_OneHandlerOneHeartbeat ==
    /\ Connects <= 1
    /\ ws.pingIntervals <= 1
    /\ last.op = "heartbeat" => (wire # <<>> <=> ws.connected)

(* connect() *)

\* C40: a connect() call made while an attempt is pending changes nothing of
\* the channel, and one made while the socket is not connected and no attempt is
\* pending starts an attempt: afterwards there is a connecting socket and a
\* pending promise.
C40_ConnectSharesOrRestarts ==
    [][last'.op = "connect()"
          => /\ ws.connectionPromise = "pending" => ws' = ws
             /\ (~(ws.socket /\ ws.connected) /\ ws.connectionPromise # "pending")
                   => (/\ ws'.socket /\ ws'.lib = "opening"
                       /\ ws'.connectionPromise = "pending")]_vars

====
